---- MODULE Spec2Model ----
(***************************************************************************)
(* State-machine model of the inference backend of SkiCancerDetector:      *)
(*   Backend/model_loader.py  ModelLoader.__init__ (model and label        *)
(*                            loading, label/cardinality reconciliation,   *)
(*                            backup-then-overwrite persistence),          *)
(*                            preprocess, predict, explain                  *)
(*   Backend/main.py          module-level construction of `ml` and the    *)
(*                            /predict and /explain routes                  *)
(*                                                                         *)
(* Python values are modelled as records so that values of different       *)
(* Python types stay comparable:                                           *)
(*   a JSON value is [kind, items]; kind is "array", "object", "string",   *)
(*   "number" or "null", and items holds the list elements, the dict       *)
(*   entries or the characters (empty for a number or null);               *)
(*   an element is [t, v]: a Python str ("str") or a non-string ("num");   *)
(*   a file is [fmt, val]: its text layout and the JSON value it encodes;  *)
(*   fmt "garbage" is a text json.load rejects.                            *)
(* Indices are 0-based as in the Python code; sequences are 1-based.       *)
(***************************************************************************)
EXTENDS Integers, Sequences, FiniteSets, TLC

\* ---------------------------------------------------------------- bounds
MaxUnits == 2
MaxRestarts == 1
MaxTemp == 2
\* classes.json may list more labels than the model has units
MaxLabels == MaxUnits + 1
\* a distinct second for every run of the process
MaxClock == MaxRestarts

\* ------------------------------------------------------------------ state
VARIABLES
    pc,            \* position of the process: the step of __init__, serving, failed
    output_shape,  \* self.model.output_shape of the model artifact
    files,         \* the model directory: path -> file, classes.json and backups
    class_names,   \* self.class_names
    loaded,        \* what json.load returned in this run (history)
    backup_path,   \* local backup_path of __init__
    persist,       \* outcome of lines 69-81 in this run (history)
    now,           \* last value datetime.now() returned, in seconds
    restarts,      \* how many times the process was started again
    prev,          \* how the previous run of the process ended (history)
    files0,        \* the model directory when this run started (history)
    temp_files,    \* preprocess's NamedTemporaryFile files present on disk
    heatmap_files, \* explain's heatmap files present on disk
    result         \* outcome of the last request handled

vars == <<pc, output_shape, files, class_names, loaded, backup_path, persist,
          now, restarts, prev, files0, temp_files, heatmap_files, result>>

\* ------------------------------------------------------ Python / JSON values
\* An unknown dimension of a Keras shape, and "inferred_units = None".
None == 0

Str(s) == [t |-> "str", v |-> s]
Num(s) == [t |-> "num", v |-> s]

JArray(items) == [kind |-> "array", items |-> items]
JObject(items) == [kind |-> "object", items |-> items]
JString(items) == [kind |-> "string", items |-> items]
JNumber == [kind |-> "number", items |-> <<>>]
JNull == [kind |-> "null", items |-> <<>>]
\* self.class_names before line 32 has assigned it
Unset == [kind |-> "unset", items |-> <<>>]
NoLabel == Str("")

\* A label list as an operator writes it: distinct names, one per index;
\* LabelsWithNumber has a non-string entry at index j-1.
LabelName(i) == Str("label_" \o ToString(i))
Labels(k) == [i \in 1..k |-> LabelName(i - 1)]
LabelsWithNumber(k, j) == [i \in 1..k |-> IF i = j THEN Num("7") ELSE LabelName(i - 1)]

\* The JSON documents classes.json may hold when the service starts.
JsonValues ==
    {JArray(Labels(k)) : k \in 0..MaxLabels}
    \cup {JArray(LabelsWithNumber(k, j)) : k \in 1..MaxLabels, j \in 1..MaxLabels}
    \cup {JObject([i \in 1..k |-> Num("1")]) : k \in 0..MaxLabels}
    \cup {JString([i \in 1..k |-> Str("x")]) : k \in 0..MaxLabels}
    \cup {JNumber, JNull}

Garbage == [fmt |-> "garbage", val |-> JNull]

InitialArtifacts == {[fmt |-> "compact", val |-> v] : v \in JsonValues} \cup {Garbage}

\* model.output_shape: empty when the attribute is missing or None, else a
\* batch axis followed by up to two axes, each None or a size.
Dims == {None} \cup (1..MaxUnits)
SpatialDims == {None, 1, 2}
OutputShapes == {<<>>, <<None>>}
    \cup {<<None, n>> : n \in Dims}
    \cup {<<None, r, n>> : r \in SpatialDims, n \in Dims}

classes_path == "classes.json"

\* str(self.classes_path) + f".bak-{timestamp}"; timestamps count seconds
BackupPath(ts) == classes_path \o ".bak-" \o ToString(ts)

\* json.load(f): raises on text that is not JSON
JsonLoadRaises(file) == file.fmt = "garbage"
JsonLoad(file) == file.val

\* Mutant: the list read from disk is dumped, not the adjusted one.
JsonDumpLoaded(obj) == [fmt |-> "indent4", val |-> loaded]

\* json.dump(obj, f, indent=4)
JsonDump(obj) == [fmt |-> "indent4", val |-> obj]

\* the reversed scan of output_shape for the first positive integer
RECURSIVE InferUnitsFrom(_, _)
InferUnitsFrom(shape, i) ==
    IF i = 0 THEN None
    ELSE IF shape[i] # None /\ shape[i] > 0 THEN shape[i]
    ELSE InferUnitsFrom(shape, i - 1)

InferUnits(shape) == InferUnitsFrom(shape, Len(shape))

\* len(x) raises TypeError for a number (and for None)
HasLen(v) == v.kind \in {"array", "object", "string"}
PyLen(v) == Len(v.items)

\* Mutant: range(hi - lo) in place of range(lo, hi).
PlaceholdersFromZero(lo, hi) ==
    [k \in 1..(IF hi > lo THEN hi - lo ELSE 0) |-> Str("class_" \o ToString(k - 1))]

\* [f"class_{i}" for i in range(lo, hi)]
Placeholders(lo, hi) ==
    [k \in 1..(IF hi > lo THEN hi - lo ELSE 0) |-> Str("class_" \o ToString(lo + k - 1))]

\* Mutant: the slice keeps one entry too many.
TruncateOneMore(v, n) == [v EXCEPT !.items = SubSeq(v.items, 1, n + 1)]

\* self.class_names[:n] on a list or a str
Truncate(v, n) == [v EXCEPT !.items = SubSeq(v.items, 1, n)]

\* Lines 51-67: the in-memory adjustment. raised: an exception reached the
\* outer handler (line 82); changed: the branch of line 56 was taken.
Adjust(cn, units) ==
    IF cn.kind = "number"
    THEN [raised |-> TRUE, changed |-> FALSE, value |-> cn]
    ELSE LET classes_len == IF cn.kind = "null" THEN 0 ELSE PyLen(cn)
         IN  IF units = None \/ units = classes_len
             THEN [raised |-> FALSE, changed |-> FALSE, value |-> cn]
             ELSE IF classes_len < units
             THEN IF cn.kind = "array"
                  THEN [raised |-> FALSE, changed |-> TRUE,
                        value |-> JArray(cn.items \o Placeholders(classes_len, units))]
                  ELSE [raised |-> TRUE, changed |-> FALSE, value |-> cn]
             ELSE IF cn.kind \in {"array", "string"}
                  THEN [raised |-> FALSE, changed |-> TRUE, value |-> Truncate(cn, units)]
                  ELSE [raised |-> TRUE, changed |-> FALSE, value |-> cn]

\* Mutant: the backup is written from the adjusted in-memory list.
CopyFileOfAdjusted(fs, src, dst) ==
    [p \in DOMAIN fs \cup {dst} |->
        IF p = dst THEN [fmt |-> "indent4", val |-> class_names] ELSE fs[p]]

\* shutil.copyfile(src, dst)
CopyFile(fs, src, dst) ==
    [p \in DOMAIN fs \cup {dst} |-> IF p = dst THEN fs[src] ELSE fs[p]]

\* a file whose writing stopped part-way (or was only truncated by open)
PartialFile(fs, path) ==
    [p \in DOMAIN fs \cup {path} |-> IF p = path THEN Garbage ELSE fs[p]]

WriteFile(fs, path, content) ==
    [p \in DOMAIN fs \cup {path} |-> IF p = path THEN content ELSE fs[p]]

\* Lines 73-81: after copyfile, the write is reached only if it did not raise
\* Mutant: the handler of line 80 re-raises.
AfterPersistFailureReraise == "failed"

\* Lines 80-81: a persistence failure is logged, __init__ returns normally
AfterPersistFailure == "serving"

\* Mutant: the write is outside the try that holds copyfile.
NextAfterBackupAlwaysWrite(outcome) == "write"

\* Lines 73-81: the write is reached only if copyfile did not raise
NextAfterBackup(outcome) == IF outcome = "ok" THEN "write" ELSE AfterPersistFailure

\* ---------------------------------------------------------------- startup
NoResult == [op |-> "none", status |-> "none", preds |-> <<>>,
             label |-> NoLabel, index |-> -1, confidence |-> -1]

Init ==
    /\ pc = "load_model"
    /\ output_shape \in OutputShapes
    /\ \/ files = << >>
       \/ \E a \in InitialArtifacts : files = (classes_path :> a)
    /\ class_names = Unset
    /\ loaded = Unset
    /\ backup_path = ""
    /\ persist = "none"
    /\ now = 0
    /\ restarts = 0
    /\ prev = [success |-> FALSE, class_names |-> Unset]
    /\ files0 = files
    /\ temp_files = 0
    /\ heatmap_files = 0
    /\ result = NoResult

\* Lines 22-28: load_model; a failure is re-raised (and again by main.py:31)
LoadModel ==
    /\ pc = "load_model"
    /\ \E ok \in BOOLEAN : pc' = IF ok THEN "load_classes" ELSE "failed"
    /\ UNCHANGED <<output_shape, files, class_names, loaded, backup_path, persist,
                   now, restarts, prev, files0, temp_files, heatmap_files, result>>

\* Lines 30-35: open and json.load of classes.json
LoadClasses ==
    /\ pc = "load_classes"
    /\ IF classes_path \notin DOMAIN files \/ JsonLoadRaises(files[classes_path])
       THEN /\ pc' = "failed"
            /\ UNCHANGED <<class_names, loaded>>
       ELSE /\ class_names' = JsonLoad(files[classes_path])
            /\ loaded' = JsonLoad(files[classes_path])
            /\ pc' = "validate"
    /\ UNCHANGED <<output_shape, files, backup_path, persist,
                   now, restarts, prev, files0, temp_files, heatmap_files, result>>

\* Lines 38-67 and 82-85: infer units, adjust self.class_names in memory
Validate ==
    /\ pc = "validate"
    /\ LET r == Adjust(class_names, InferUnits(output_shape))
       IN  /\ class_names' = r.value
           /\ pc' = IF r.raised THEN "failed"
                    ELSE IF r.changed THEN "backup" ELSE "serving"
           /\ persist' = IF ~r.raised /\ ~r.changed THEN "unchanged" ELSE persist
    /\ UNCHANGED <<output_shape, files, loaded, backup_path,
                   now, restarts, prev, files0, temp_files, heatmap_files, result>>

\* Lines 69-74 (80-81 on failure): the timestamped backup copy
Backup ==
    /\ pc = "backup"
    /\ \E t \in now..MaxClock, outcome \in {"ok", "failed", "partial"} :
          /\ now' = t
          /\ backup_path' = BackupPath(t)
          /\ files' = CASE outcome = "ok" -> CopyFile(files, classes_path, BackupPath(t))
                        [] outcome = "failed" -> files
                        [] outcome = "partial" -> PartialFile(files, BackupPath(t))
          /\ pc' = NextAfterBackup(outcome)
          /\ persist' = IF outcome = "ok" THEN persist ELSE "backup_failed"
    /\ UNCHANGED <<output_shape, class_names, loaded,
                   restarts, prev, files0, temp_files, heatmap_files, result>>

\* Lines 76-79 (80-81 on failure): overwrite classes.json
Write ==
    /\ pc = "write"
    /\ \E outcome \in {"ok", "failed", "partial"} :
          /\ files' = CASE outcome = "ok" -> WriteFile(files, classes_path, JsonDump(class_names))
                        [] outcome = "failed" -> files
                        [] outcome = "partial" -> PartialFile(files, classes_path)
          /\ persist' = IF outcome = "ok" THEN "ok" ELSE "write_failed"
          /\ pc' = IF outcome = "ok" THEN "serving" ELSE AfterPersistFailure
    /\ UNCHANGED <<output_shape, class_names, loaded, backup_path,
                   now, restarts, prev, files0, temp_files, heatmap_files, result>>

\* The process ends (after serving, or after a failed startup) and is started
\* again on the same model directory.
Restart ==
    /\ pc \in {"serving", "failed"}
    /\ restarts < MaxRestarts
    /\ restarts' = restarts + 1
    /\ prev' = [success |-> pc = "serving" /\ persist \in {"ok", "unchanged"},
                class_names |-> class_names]
    /\ files0' = files
    /\ pc' = "load_model"
    /\ class_names' = Unset
    /\ loaded' = Unset
    /\ backup_path' = ""
    /\ persist' = "none"
    /\ result' = NoResult
    /\ UNCHANGED <<output_shape, files, now, temp_files, heatmap_files>>

\* --------------------------------------------------------------- requests
\* Scores are fixed-point numbers; the model emits a low or a high one, both
\* even, so that the mean over one or two rows (line 115) is exact.
RawScores == {0, 2}

\* What model.predict can return for a batch of one image: ndim counts the
\* batch axis, rows are the vectors along the last axis. An axis of unknown
\* size takes any size; an unknown class axis may be empty.
RawOutputs(shape) ==
    LET classes == IF Len(shape) >= 2 /\ shape[Len(shape)] # None
                   THEN {shape[Len(shape)]} ELSE 0..MaxUnits
        spatial == IF Len(shape) = 3
                   THEN (IF shape[2] # None THEN {shape[2]} ELSE {1, 2})
                   ELSE {1}
    IN  IF Len(shape) = 1
        THEN {[ndim |-> 1, rows |-> <<v>>] : v \in [1..1 -> RawScores]}
        ELSE {[ndim |-> IF Len(shape) = 3 THEN 3 ELSE 2, rows |-> rs] :
                 rs \in UNION {[1..h -> [1..c -> RawScores]] : h \in spatial, c \in classes}}

RECURSIVE ColumnSum(_, _, _)
ColumnSum(rows, c, h) == IF h = 0 THEN 0 ELSE rows[h][c] + ColumnSum(rows, c, h - 1)

\* Lines 107-116: drop the batch axis, mean over every axis but the last, ravel
Reduce(raw) ==
    IF raw.ndim <= 2
    THEN raw.rows[1]
    ELSE [c \in 1..Len(raw.rows[1]) |-> ColumnSum(raw.rows, c, Len(raw.rows)) \div Len(raw.rows)]

\* np.argmax on a non-empty vector: the first index holding the maximum
RECURSIVE ArgmaxFrom(_, _, _)
ArgmaxFrom(preds, i, best) ==
    IF i > Len(preds) THEN best - 1
    ELSE IF preds[i] > preds[best] THEN ArgmaxFrom(preds, i + 1, i)
    ELSE ArgmaxFrom(preds, i + 1, best)

RECURSIVE ArgmaxLastFrom(_, _, _)
ArgmaxLastFrom(preds, i, best) ==
    IF i > Len(preds) THEN best - 1
    ELSE IF preds[i] >= preds[best] THEN ArgmaxLastFrom(preds, i + 1, i)
    ELSE ArgmaxLastFrom(preds, i + 1, best)

\* Mutant: ties go to the last occurrence.
ArgmaxLast(preds) == ArgmaxLastFrom(preds, 2, 1)

Argmax(preds) == ArgmaxFrom(preds, 2, 1)

\* Line 149: self.class_names[index]. A list or str is indexed by position
\* (IndexError past its end); a dict has no integer keys (KeyError); None is
\* not subscriptable (TypeError).
Subscript(cn, index) ==
    IF cn.kind \in {"array", "string"} /\ index < Len(cn.items)
    THEN [raised |-> FALSE, value |-> cn.items[index + 1]]
    ELSE [raised |-> TRUE, value |-> NoLabel]

\* Lines 126-150 on the flat score vector
Resolve(cn, preds) ==
    IF preds = <<>>
    THEN [op |-> "predict", status |-> "argmax_error", preds |-> preds,
          label |-> NoLabel, index |-> -1, confidence |-> -1]
    ELSE LET index == Argmax(preds)
             \* lines 141-146 assign the fallback to class_name when the index is
             \* out of range ...
             fallback == IF HasLen(cn) /\ index >= PyLen(cn)
                         THEN Str("class_" \o ToString(index)) ELSE NoLabel
             confidence == preds[index + 1]
             \* ... and line 149 assigns class_name again, from the list
             looked == Subscript(cn, index)
         IN  IF looked.raised
             THEN [op |-> "predict", status |-> "lookup_error", preds |-> preds,
                   label |-> fallback, index |-> index, confidence |-> confidence]
             ELSE [op |-> "predict", status |-> "ok", preds |-> preds,
                   label |-> looked.value, index |-> index, confidence |-> confidence]

Failure(op, status) == [op |-> op, status |-> status, preds |-> <<>>,
                        label |-> NoLabel, index |-> -1, confidence |-> -1]

\* Lines 87-95. created: NamedTemporaryFile(delete=False) made its file;
\* raised: write, close or load_img raised. No path deletes the file.
PreprocessOutcomes ==
    {[created |-> FALSE, raised |-> TRUE],
     [created |-> TRUE, raised |-> TRUE],
     [created |-> TRUE, raised |-> FALSE]}

TempFilesAfter(n, pre) == IF pre.created THEN n + 1 ELSE n

\* model_loader.py 97-150 behind main.py 55-69: one /predict request
Predict ==
    /\ pc = "serving"
    /\ temp_files < MaxTemp
    /\ \E pre \in PreprocessOutcomes :
          /\ temp_files' = TempFilesAfter(temp_files, pre)
          /\ IF pre.raised
             THEN result' = Failure("predict", "preprocess_error")
             ELSE \/ result' = Failure("predict", "inference_error")
                  \/ \E raw \in RawOutputs(output_shape) :
                        result' = Resolve(class_names, Reduce(raw))
    /\ UNCHANGED <<pc, output_shape, files, class_names, loaded, backup_path, persist,
                   now, restarts, prev, files0, heatmap_files>>

\* model_loader.py 152-182 behind main.py 71-79: one /explain request. The
\* gradient pass either raises or yields a heatmap, written to a new file.
Explain ==
    /\ pc = "serving"
    /\ temp_files < MaxTemp
    /\ \E pre \in PreprocessOutcomes :
          /\ temp_files' = TempFilesAfter(temp_files, pre)
          /\ IF pre.raised
             THEN /\ result' = Failure("explain", "preprocess_error")
                  /\ UNCHANGED heatmap_files
             ELSE \/ /\ result' = Failure("explain", "explain_error")
                     /\ UNCHANGED heatmap_files
                  \/ /\ result' = [Failure("explain", "ok") EXCEPT !.label = Str("heatmap.png")]
                     /\ heatmap_files' = heatmap_files + 1
    /\ UNCHANGED <<pc, output_shape, files, class_names, loaded, backup_path, persist,
                   now, restarts, prev, files0>>

\* One lifetime of the service process: startup, then requests.
Next ==
    \/ LoadModel
    \/ LoadClasses
    \/ Validate
    \/ Backup
    \/ Write
    \/ Predict
    \/ Explain

Spec == Init /\ [][Next]_vars

\* Startups of the process on the same model directory, one after another.
\* Requests change neither self.class_names nor the model directory.
NextStartup ==
    \/ LoadModel
    \/ LoadClasses
    \/ Validate
    \/ Backup
    \/ Write
    \/ Restart

SpecStartup == Init /\ [][NextStartup]_vars

\* ----------------------------------------------------------------- claims
units == InferUnits(output_shape)

FallbackLabel(i) == Str("class_" \o ToString(i))

\* i (0-based) is the lowest index holding the maximum of p
IsFirstMax(p, i) ==
    \A j \in 1..Len(p) : p[j] <= p[i + 1] /\ (j < i + 1 => p[j] < p[i + 1])

IsStringArray(v) ==
    v.kind = "array" /\ \A i \in 1..Len(v.items) : v.items[i].t = "str"

\* the startup of this run changed the length of the Label Set
LengthChanged == HasLen(loaded) /\ HasLen(class_names) /\ PyLen(loaded) # PyLen(class_names)

\* C1: whenever predict has a score vector whose argmax index is at or past
\* the end of the Label Set, it does not raise and returns
\* ("class_<index>", index, score[index]).
C1_FallbackLabelReturned ==
    (/\ result.op = "predict"
     /\ result.preds # <<>>
     /\ class_names.kind = "array"
     /\ \E i \in 0..(Len(result.preds) - 1) :
           IsFirstMax(result.preds, i) /\ i >= Len(class_names.items))
    => \E i \in 0..(Len(result.preds) - 1) :
           /\ IsFirstMax(result.preds, i)
           /\ result.status = "ok"
           /\ result.label = FallbackLabel(i)
           /\ result.index = i
           /\ result.confidence = result.preds[i + 1]

\* C2: once __init__ has completed and units is determinable, the Label Set
\* has exactly units entries, whatever the artifact held and whether or not
\* the backup and the overwrite succeeded; requests are served only then.
C2_LabelCountMatchesUnits ==
    /\ (pc = "serving" /\ units # None)
          => (HasLen(class_names) /\ PyLen(class_names) = units)
    /\ result.op # "none" => pc = "serving"

\* C2 witness: a longer artifact was truncated, the backup failed, and a
\* predict request was handled.
C2_Witness ==
    /\ pc = "serving"
    /\ units # None
    /\ HasLen(loaded) /\ PyLen(loaded) > units
    /\ persist = "backup_failed"
    /\ result.op = "predict"

\* C3: after reconciliation with units determinable, the Label Set is the
\* first min(classesLen, units) original entries in their order, followed by
\* the placeholders class_<classesLen> .. class_<units-1>.
C3_ReconciledLabels ==
    (pc \in {"backup", "write", "serving"} /\ units # None)
    => /\ Len(class_names.items) = units
       /\ \A i \in 1..units :
             class_names.items[i] =
                IF i <= Len(loaded.items) THEN loaded.items[i] ELSE FallbackLabel(i - 1)

\* C3 witness: a list at least two entries short of units was padded.
C3_Witness ==
    /\ pc = "serving"
    /\ loaded.kind = "array"
    /\ Len(loaded.items) + 2 <= units
    /\ class_names.items[units] = FallbackLabel(units - 1)

\* C4 as stated: every reconciliation that changes the length leaves exactly
\* one new backup file holding the pre-change Label Set and the live artifact
\* equal to the post-change Label Set; one that does not change the length
\* creates no backup and does not write.
C4_BackupAndArtifactAlways ==
    pc = "serving"
    => IF LengthChanged
       THEN /\ backup_path \in DOMAIN files
            /\ DOMAIN files \ DOMAIN files0 = {backup_path}
            /\ ~JsonLoadRaises(files[backup_path])
            /\ JsonLoad(files[backup_path]) = loaded
            /\ ~JsonLoadRaises(files[classes_path])
            /\ JsonLoad(files[classes_path]) = class_names
       ELSE files = files0

\* C4 amended: a length-changing reconciliation whose copy and overwrite both
\* succeed leaves the backup file <path>.bak-<timestamp> holding the
\* pre-change artifact (creating no other file, and overwriting a backup of the
\* same second if there is one) and the live artifact equal to the
\* post-change Label Set as indented JSON; every length change attempts the
\* persistence; without a length change nothing on disk changes.
C4_BackupAndArtifactWhenPersisted ==
    pc = "serving"
    => /\ LengthChanged => persist \in {"ok", "backup_failed", "write_failed"}
       /\ (LengthChanged /\ persist = "ok")
             => /\ backup_path \in DOMAIN files
                /\ DOMAIN files \ DOMAIN files0 \subseteq {backup_path}
                /\ files[backup_path] = files0[classes_path]
                /\ JsonLoad(files[backup_path]) = loaded
                /\ files[classes_path] = [fmt |-> "indent4", val |-> class_names]
                /\ \A p \in DOMAIN files0 \ {backup_path, classes_path} : files[p] = files0[p]
       /\ ~LengthChanged => files = files0

\* C4 witness: a length change was persisted over a backup of the same second
\* left by an earlier run.
C4_Witness ==
    /\ pc = "serving"
    /\ LengthChanged
    /\ persist = "ok"
    /\ backup_path \in DOMAIN files0

\* C5: the live artifact changes only after the backup copy of its prior
\* content has been written; when the copy fails, the overwrite is not
\* reached and the artifact keeps the content it had when the run started.
C5_OverwriteOnlyAfterBackup ==
    [][/\ (classes_path \in DOMAIN files /\ files'[classes_path] # files[classes_path])
             => (/\ pc = "write"
                 /\ backup_path \in DOMAIN files
                 /\ files[backup_path] = files[classes_path])
       /\ persist' = "backup_failed"
             => (pc' = "serving" /\ files'[classes_path] = files0[classes_path])
       /\ (persist = "backup_failed" /\ restarts' = restarts)
             => files'[classes_path] = files0[classes_path]]_vars

\* C5 witness: the backup copy failed and the stale artifact is untouched.
C5_Witness ==
    /\ pc = "serving"
    /\ persist = "backup_failed"
    /\ LengthChanged
    /\ files[classes_path] = files0[classes_path]
    /\ JsonLoad(files[classes_path]) # class_names

\* C6: a startup that follows a successful startup on the same model and
\* model directory changes no file, creates no backup, and ends with the same
\* in-memory Label Set.
C6_ReconcileIdempotent ==
    (restarts > 0 /\ prev.success)
    => /\ files = files0
       /\ pc \notin {"backup", "write"}
       /\ pc = "serving" => class_names = prev.class_names

\* C6 witness: a second startup completed without change after a first one that
\* had written a backup.
C6_Witness ==
    /\ restarts > 0
    /\ prev.success
    /\ pc = "serving"
    /\ persist = "unchanged"
    /\ \E t \in 0..MaxClock : BackupPath(t) \in DOMAIN files

\* C7: when the backup copy or the overwrite fails, __init__ still returns
\* normally with a Label Set of units entries, and requests are served.
C7_PersistFailureNotFatal ==
    persist \in {"backup_failed", "write_failed"}
    => /\ pc = "serving"
       /\ HasLen(class_names)
       /\ PyLen(class_names) = units

\* C7 witness: a prediction was returned after the overwrite had failed.
C7_Witness ==
    /\ persist = "write_failed"
    /\ pc = "serving"
    /\ result.op = "predict"
    /\ result.status = "ok"

\* C8: no temporary file created by preprocess is left once a request has
\* been handled.
C8_NoTempFileLeft == temp_files = 0

\* C9: for a non-empty score vector whose first maximum is at an index within
\* the Label Set, predict returns (Label Set[index], index, score[index]).
C9_FirstMaxLabel ==
    (result.op = "predict" /\ result.preds # <<>> /\ class_names.kind = "array")
    => \A i \in 0..(Len(result.preds) - 1) :
          (IsFirstMax(result.preds, i) /\ i < Len(class_names.items))
          => /\ result.status = "ok"
             /\ result.label = class_names.items[i + 1]
             /\ result.index = i
             /\ result.confidence = result.preds[i + 1]

\* C9 witness: a tie between the first two scores, both maximal, resolved to
\* index 0.
C9_Witness ==
    /\ result.op = "predict"
    /\ result.status = "ok"
    /\ Len(result.preds) >= 2
    /\ result.preds[1] = result.preds[2]
    /\ result.preds[1] > 0
    /\ \A j \in 1..Len(result.preds) : result.preds[j] <= result.preds[1]
    /\ result.index = 0
    /\ class_names.kind = "array"

\* C10: if classes.json is unreadable or is not a JSON array of strings,
\* startup fails: the service never reaches serving and handles no request.
C10_MalformedArtifactBlocksStartup ==
    (pc = "serving" \/ result.op # "none") => IsStringArray(loaded)
====
